---- MODULE Spec2Model ----
(***************************************************************************)
(* Model of the merge-request review pipeline of gitlab_ai_reviewer        *)
(* (src/code/src/helpers/gitlabreviewhelper.py): chunk planning            *)
(* (split_into_chunks), the reviewer with its retry wrapper (get_review,   *)
(* retry_on_exception), the diff parser (parse_diff_block) and the comment *)
(* poster (post_review_comments), and the coroutine of the Telegram bot    *)
(* that runs them for one merge request (review_merge_request_async in     *)
(* src/code/src/bots/tg_bot.py).                                           *)
(*                                                                         *)
(* Token counts come from the tiktoken library, which is not part of the   *)
(* repository.  A text is represented by its token count, and the count of *)
(* a text assembled from several pieces is the sum of the counts of the    *)
(* pieces.                                                                 *)
(***************************************************************************)
EXTENDS Integers, Sequences, FiniteSets, TLC

VARIABLES
    \* split_into_chunks: arguments, result and position of the call
    diffs, max_tokens_per_chunk, base_tokens, chunks, plan_pc,
    \* ChatGPTReviewer: its fields, and the retry wrapper around get_review
    prompt_tokens, token_stats, attempt, delay, sleeps, reviews, rv_pc, calls,
    \* the token statistics when the running get_review call was made
    stats_at_call,
    \* parse_diff_block: argument, result and position of the call
    diff_block, parsed_lines, parse_pc,
    \* post_review_comments: argument, loop state, calls made on the merge
    \* request, result and position of the call
    review_comments, part_index, error_details, discussions, result, post_pc,
    \* the failure records serialised into the string post_review_comments returned
    summary,
    \* review_merge_request_async: argument, position of the coroutine and
    \* its return value
    mr_id, bot_pc, reply

planVars == <<diffs, max_tokens_per_chunk, base_tokens, chunks, plan_pc>>

reviewerVars == <<prompt_tokens, token_stats, attempt, delay, sleeps, reviews, rv_pc, calls,
                  stats_at_call>>

parserVars == <<diff_block, parsed_lines, parse_pc>>

vars == <<diffs, max_tokens_per_chunk, base_tokens, chunks, plan_pc,
          prompt_tokens, token_stats, attempt, delay, sleeps, reviews, rv_pc, calls,
          diff_block, parsed_lines, parse_pc,
          review_comments, part_index, error_details, discussions, result, post_pc,
          stats_at_call, summary, mr_id, bot_pc, reply>>

posterVars == <<review_comments, part_index, error_details, discussions, result, post_pc,
                summary>>

botVars == <<mr_id, bot_pc, reply>>

----------------------------------------------------------------------------
(* Bounds of the model *)

MaxDiffs == 3

\* get_review calls made on one reviewer
MaxCalls == 2

\* FileDiffs handed to one get_review call
MaxReviewDiffs == 2

\* lines of a diff block
MaxLines == 4

\* response parts handed to post_review_comments, and elements of one part
MaxParts == 2
MaxComments == 2

\* response parts wrapped in fences handed to post_review_comments
MaxFencedParts == 2

\* token counts of the rendered summary of one FileDiff
DiffCosts == {50, 100, 150, 300}

\* ceilings handed to the planner
Ceilings == {200, 400}

\* token counts of the base messages
BaseCosts == {20, 250}

\* token counts of the prompt message, and TOKEN_LIMIT settings
PromptCosts == {20}
TokenLimits == {220}

\* token counts of the task-details message; 0 stands for empty task_details
TaskCosts == {0, 30}

\* token counts of the summaries of the FileDiffs handed to get_review
ReviewDiffCosts == {100, 150}

----------------------------------------------------------------------------
(* Helpers on sequences *)

RECURSIVE SumTokens(_)
SumTokens(s) ==
    IF s = <<>> THEN 0 ELSE Head(s).tokens + SumTokens(Tail(s))

RECURSIVE Flatten(_)
Flatten(ss) ==
    IF ss = <<>> THEN <<>> ELSE Head(ss) \o Flatten(Tail(ss))

\* all sequences over S of length 0..n
SeqsUpTo(S, n) == UNION {[1..k -> S] : k \in 0..n}

\* a Diff: the file it belongs to and the token count of its summary
\* (summarize_diffs_multiline([diff]) encoded by tiktoken)
Diff(p, c) == [path |-> p, tokens |-> c]

DiffLists ==
    {[i \in 1..Len(cs) |-> Diff(i, cs[i])] : cs \in SeqsUpTo(DiffCosts, MaxDiffs)}

----------------------------------------------------------------------------
(* split_into_chunks *)

\* the loop body with the closed chunk discarded instead of pushed
SplitStep_DiscardsClosedChunk(st, diff, max_tokens, base) ==
    LET over == st.current_tokens + diff.tokens > max_tokens
    IN  [chunks |-> st.chunks,
         current_chunk |-> Append(IF over THEN <<>> ELSE st.current_chunk, diff),
         current_tokens |-> (IF over THEN base ELSE st.current_tokens) + diff.tokens]

\* the body of the for loop, for one diff; st is the loop state
\* [chunks, current_chunk, current_tokens]
SplitStep(st, diff, max_tokens, base) ==
    LET over == st.current_tokens + diff.tokens > max_tokens
        cs   == IF over THEN Append(st.chunks, st.current_chunk) ELSE st.chunks
        cur  == IF over THEN <<>> ELSE st.current_chunk
        tok  == IF over THEN base ELSE st.current_tokens
    IN  [chunks |-> cs,
         current_chunk |-> Append(cur, diff),
         current_tokens |-> tok + diff.tokens]

RECURSIVE SplitLoop(_, _, _, _)
SplitLoop(st, ds, max_tokens, base) ==
    IF ds = <<>> THEN st
    ELSE SplitLoop(SplitStep(st, Head(ds), max_tokens, base), Tail(ds), max_tokens, base)

split_into_chunks(ds, max_tokens, base) ==
    LET st == SplitLoop([chunks |-> <<>>, current_chunk |-> <<>>, current_tokens |-> base],
                        ds, max_tokens, base)
    IN  IF st.current_chunk # <<>> THEN Append(st.chunks, st.current_chunk)
        ELSE st.chunks

----------------------------------------------------------------------------
(* The planner called on its own, for every input *)

\* the reviewer when no reviewer is part of the run
NoReviewer ==
    /\ prompt_tokens = 0
    /\ token_stats = [total_tokens |-> 0, static_tokens |-> 0, diff_tokens |-> 0]
    /\ attempt = 0
    /\ delay = 0
    /\ sleeps = <<>>
    /\ reviews = <<>>
    /\ rv_pc = "none"
    /\ calls = 0
    /\ stats_at_call = token_stats

\* the parser when no diff block is parsed in the run
NoParser ==
    /\ diff_block = <<>>
    /\ parsed_lines = <<>>
    /\ parse_pc = "none"

\* the poster when no comments are posted in the run
NoPoster ==
    /\ review_comments = <<>>
    /\ part_index = 0
    /\ error_details = <<>>
    /\ discussions = <<>>
    /\ result = "none"
    /\ post_pc = "none"
    /\ summary = <<>>

\* the bot when no merge request is reviewed through it in the run
NoBot ==
    /\ mr_id = 0
    /\ bot_pc = "none"
    /\ reply = [kind |-> "none"]

InitPlan ==
    /\ NoBot
    /\ NoParser
    /\ NoPoster
    /\ diffs \in DiffLists
    /\ max_tokens_per_chunk \in Ceilings
    /\ base_tokens \in BaseCosts
    /\ chunks = <<>>
    /\ plan_pc = "call"
    /\ NoReviewer

Plan ==
    /\ plan_pc = "call"
    /\ chunks' = split_into_chunks(diffs, max_tokens_per_chunk, base_tokens)
    /\ plan_pc' = "done"
    /\ UNCHANGED <<diffs, max_tokens_per_chunk, base_tokens>>
    /\ UNCHANGED <<reviewerVars, parserVars, posterVars, botVars>>

NextPlan == Plan

SpecPlan == InitPlan /\ [][NextPlan]_vars

----------------------------------------------------------------------------
(* ChatGPTReviewer.get_review under retry_on_exception *)

max_retries == 5
initial_delay == 2
backoff_factor == 2

ReviewDiffLists ==
    {[i \in 1..Len(cs) |-> Diff(i, cs[i])] : cs \in SeqsUpTo(ReviewDiffCosts, MaxReviewDiffs)}

\* estimate_tokens(base_messages): the system message plus, when
\* task_details is not empty, the task-details message
estimate_base(prompt, task) == prompt + task

\* the token statistics after the statistics update of one chunk:
\* diff_tokens grows by the count of the chunk's summary, total_tokens by
\* the count of the joined contents of all messages of the request
AccountChunk(stats, chunk, base) ==
    [stats EXCEPT !.diff_tokens = @ + SumTokens(chunk),
                  !.total_tokens = @ + base + SumTokens(chunk)]

\* the statistics after the loop of get_review has accounted the first n chunks
RECURSIVE AccountChunks(_, _, _, _)
AccountChunks(stats, cs, n, base) ==
    IF n = 0 THEN stats
    ELSE AccountChunk(AccountChunks(stats, cs, n - 1, base), cs[n], base)

\* ChatGPTReviewer.__init__
NewReviewer ==
    /\ prompt_tokens \in PromptCosts
    /\ \E token_limit \in TokenLimits : max_tokens_per_chunk = token_limit - prompt_tokens
    /\ token_stats = [total_tokens |-> 0, static_tokens |-> prompt_tokens, diff_tokens |-> 0]
    /\ diffs = <<>>
    /\ base_tokens = 0
    /\ chunks = <<>>
    /\ plan_pc = "none"
    /\ attempt = 0
    /\ delay = 0
    /\ sleeps = <<>>
    /\ reviews = <<>>
    /\ rv_pc = "idle"
    /\ calls = 0
    /\ stats_at_call = token_stats

\* a reviewer on its own, for every sequence of get_review calls
InitReview ==
    /\ NoBot
    /\ NoParser
    /\ NoPoster
    /\ NewReviewer

\* the caller invokes reviewer.get_review(ds, task_details): the wrapper starts
CallGetReview ==
    /\ rv_pc \in {"idle", "returned", "raised"}
    /\ calls < MaxCalls
    /\ \E ds \in ReviewDiffLists, task \in TaskCosts :
          /\ diffs' = ds
          /\ base_tokens' = estimate_base(prompt_tokens, task)
    /\ chunks' = <<>>
    /\ calls' = calls + 1
    /\ attempt' = 0
    /\ delay' = initial_delay
    /\ sleeps' = <<>>
    /\ reviews' = <<>>
    /\ rv_pc' = "running"
    /\ stats_at_call' = token_stats
    /\ UNCHANGED <<max_tokens_per_chunk, plan_pc, prompt_tokens, token_stats>>
    /\ UNCHANGED <<parserVars, posterVars, botVars>>

\* one iteration of the wrapper's loop in which get_review runs to its end
AttemptSucceeds ==
    /\ rv_pc = "running"
    /\ attempt < max_retries
    /\ LET cs == split_into_chunks(diffs, max_tokens_per_chunk, base_tokens)
       IN  /\ chunks' = cs
           /\ token_stats' = AccountChunks(token_stats, cs, Len(cs), base_tokens)
           /\ reviews' = [i \in 1..Len(cs) |-> i]
    /\ attempt' = attempt + 1
    /\ rv_pc' = "returned"
    /\ UNCHANGED <<diffs, max_tokens_per_chunk, base_tokens, plan_pc,
                   prompt_tokens, delay, sleeps, calls, stats_at_call>>
    /\ UNCHANGED <<parserVars, posterVars, botVars>>

\* the handling of a failed attempt with None returned, instead of the
\* RuntimeError raised, once the attempts are used up
AfterFailure_ReturnsWhenExhausted(kind) ==
    /\ IF kind = "RateLimitError" \/ attempt < max_retries - 1
         THEN /\ sleeps' = Append(sleeps, delay)
              /\ delay' = delay * backoff_factor
         ELSE UNCHANGED <<sleeps, delay>>
    /\ attempt' = attempt + 1
    /\ rv_pc' = IF attempt + 1 < max_retries THEN "running" ELSE "returned"

\* the wrapper's handling of a failed attempt: the sleep and the new delay
\* of the matching except clause, then the next iteration or, after
\* the last one, the RuntimeError
AfterFailure(kind) ==
    /\ IF kind = "RateLimitError" \/ attempt < max_retries - 1
         THEN /\ sleeps' = Append(sleeps, delay)
              /\ delay' = delay * backoff_factor
         ELSE UNCHANGED <<sleeps, delay>>
    /\ attempt' = attempt + 1
    /\ rv_pc' = IF attempt + 1 < max_retries THEN "running" ELSE "raised"

\* one iteration of the wrapper's loop in which send_to_chatgpt raises for
\* chunk k, after the statistics of chunks 1..k were updated
AttemptFails ==
    /\ rv_pc = "running"
    /\ attempt < max_retries
    /\ LET cs == split_into_chunks(diffs, max_tokens_per_chunk, base_tokens)
       IN  /\ chunks' = cs
           /\ \E k \in 1..Len(cs) :
                 token_stats' = AccountChunks(token_stats, cs, k, base_tokens)
    /\ \E kind \in {"RateLimitError", "Exception"} : AfterFailure(kind)
    /\ UNCHANGED <<diffs, max_tokens_per_chunk, base_tokens, plan_pc,
                   prompt_tokens, reviews, calls, stats_at_call>>
    /\ UNCHANGED <<parserVars, posterVars, botVars>>

Next ==
    \/ CallGetReview
    \/ AttemptSucceeds
    \/ AttemptFails

Init == InitReview

Spec == Init /\ [][Next]_vars

----------------------------------------------------------------------------
(* parse_diff_block *)

\* The lines of a diff block.  A line is either a hunk header
\* "@@ -old_start[,old_count] +new_start[,new_count] @@", written with or
\* without each of the two counts, or a text line: its first character
\* (" ", "-", "+", or "\\" for any other line) and the rest of the line.
Header(a, has_old_count, b, has_new_count) ==
    [kind |-> "header", old_start |-> a, old_count |-> has_old_count,
     new_start |-> b, new_count |-> has_new_count]

Text(prefix, content) == [kind |-> "text", prefix |-> prefix, content |-> content]

HeaderLines ==
    {Header(1, TRUE, 1, TRUE)}
      \cup {Header(3, oc, 8, nc) : oc \in BOOLEAN, nc \in BOOLEAN}

TextLines == {Text(p, "a") : p \in {" ", "-", "+", "\\"}}

DiffBlocks == SeqsUpTo(HeaderLines \cup TextLines, MaxLines)

\* Python's None as a line number; line numbers are never negative
None == -1

ParsedLine(content, old, new, type) ==
    [content |-> content, old_line |-> old, new_line |-> new, type |-> type]

\* re.match(r"@@ -(\d+),\d+ \+(\d+)(?:,\d+)? @@", line): the comma and the
\* count after the old start are mandatory, those after the new start optional
header_match(line) == line.kind = "header" /\ line.old_count

\* the body of the for loop, for one line; st is the loop state
\* [parsed_lines, old_line, new_line, raised].  "x += 1" on None raises
\* TypeError.
ParseStep(st, line) ==
    IF st.raised THEN st
    ELSE IF header_match(line)
    THEN [st EXCEPT !.old_line = line.old_start, !.new_line = line.new_start]
    ELSE IF line.kind = "text" /\ line.prefix = " "
    THEN IF st.old_line = None THEN [st EXCEPT !.raised = TRUE]
         ELSE [st EXCEPT !.parsed_lines =
                            Append(@, ParsedLine(line.content, st.old_line, st.new_line, "none")),
                         !.old_line = @ + 1,
                         !.new_line = @ + 1]
    ELSE IF line.kind = "text" /\ line.prefix = "-"
    THEN IF st.old_line = None THEN [st EXCEPT !.raised = TRUE]
         ELSE [st EXCEPT !.parsed_lines =
                            Append(@, ParsedLine(line.content, st.old_line, None, "old")),
                         !.old_line = @ + 1]
    ELSE IF line.kind = "text" /\ line.prefix = "+"
    THEN IF st.new_line = None THEN [st EXCEPT !.raised = TRUE]
         ELSE [st EXCEPT !.parsed_lines =
                            Append(@, ParsedLine(line.content, None, st.new_line, "new")),
                         !.new_line = @ + 1]
    ELSE st

RECURSIVE ParseLoop(_, _)
ParseLoop(st, lines) ==
    IF lines = <<>> THEN st ELSE ParseLoop(ParseStep(st, Head(lines)), Tail(lines))

\* the loop state at the return statement, or with raised set when the
\* call ended with TypeError
parse_diff_block(lines) ==
    ParseLoop([parsed_lines |-> <<>>, old_line |-> None, new_line |-> None,
               raised |-> FALSE], lines)

InitParse ==
    /\ diff_block \in DiffBlocks
    /\ parsed_lines = <<>>
    /\ parse_pc = "call"
    /\ diffs = <<>>
    /\ max_tokens_per_chunk = 0
    /\ base_tokens = 0
    /\ chunks = <<>>
    /\ plan_pc = "none"
    /\ NoReviewer
    /\ NoPoster
    /\ NoBot

ParseReturns ==
    /\ parse_pc = "call"
    /\ ~parse_diff_block(diff_block).raised
    /\ parsed_lines' = parse_diff_block(diff_block).parsed_lines
    /\ parse_pc' = "done"
    /\ UNCHANGED <<diff_block, planVars, reviewerVars, posterVars, botVars>>

ParseRaises ==
    /\ parse_pc = "call"
    /\ parse_diff_block(diff_block).raised
    /\ parse_pc' = "TypeError"
    /\ UNCHANGED <<diff_block, parsed_lines, planVars, reviewerVars, posterVars, botVars>>

NextParse ==
    \/ ParseReturns
    \/ ParseRaises

SpecParse == InitParse /\ [][NextParse]_vars

----------------------------------------------------------------------------
(* post_review_comments *)

\* A response part is a text: a sequence of characters.  A JSON value that
\* is an element of an array, or a whole JSON value that is not an array,
\* is written as a single unit of the text that carries the value.
Ch(c) == [ch |-> c]
Value(v) == [ch |-> "value", v |-> v]

Str(cs) == [i \in 1..Len(cs) |-> Ch(cs[i])]

\* JSON values: objects with the keys of a review comment, and a number
CommentKeys == {"Comment", "Path", "StartLine", "EndLine", "Type"}

\* a JSON object: has is the set of keys present, wrong the set of keys
\* whose value has a type the field does not accept
Object(has, wrong, comment, path, start_line, end_line, type) ==
    [json |-> "object", has |-> has, wrong |-> wrong, Comment |-> comment,
     Path |-> path, StartLine |-> start_line, EndLine |-> end_line, Type |-> type]

CommentNew == Object(CommentKeys, {}, "c1", "a.py", 1, 2, "new")
CommentOld == Object(CommentKeys, {}, "c2", "b.py", 3, 4, "old")
CommentSuggestion == Object(CommentKeys, {}, "c3", "c.py", 5, 6, "suggestion")
CommentNoEndLine == Object(CommentKeys \ {"EndLine"}, {}, "c4", "d.py", 7, 0, "new")
CommentBadStartLine == Object(CommentKeys, {"StartLine"}, "c5", "e.py", 0, 8, "old")
Number == [json |-> "number"]

Elements ==
    {CommentNew, CommentOld, CommentSuggestion, CommentNoEndLine, CommentBadStartLine, Number}

\* the text of a JSON array of the given elements
RECURSIVE Joined(_)
Joined(items) ==
    IF items = <<>> THEN <<>>
    ELSE IF Len(items) = 1 THEN <<Value(items[1])>>
    ELSE <<Value(items[1]), Ch(",")>> \o Joined(Tail(items))

ArrayText(items) == <<Ch("[")>> \o Joined(items) \o <<Ch("]")>>

\* the text of a JSON object on its own
ObjectText == <<Value(CommentNew)>>

\* a text that is not JSON
ProseText == Str(<<"S", "o", "r", "r", "y">>)

PartTexts ==
    {ArrayText(items) : items \in SeqsUpTo(Elements, MaxComments)}
      \cup {ObjectText, ProseText}

ResponseLists == SeqsUpTo(PartTexts, MaxParts)

\* str.startswith, str.endswith and slices
StartsWith(text, prefix) ==
    Len(text) >= Len(prefix) /\ SubSeq(text, 1, Len(prefix)) = prefix

EndsWith(text, suffix) ==
    Len(text) >= Len(suffix) /\ SubSeq(text, Len(text) - Len(suffix) + 1, Len(text)) = suffix

SliceFrom(text, n) == SubSeq(text, n + 1, Len(text))

SliceDropLast(text, n) == SubSeq(text, 1, Len(text) - n)

\* the fence markers; "tick" is the backquote character
FenceJson == Str(<<"tick", "tick", "tick", "j", "s", "o", "n">>)
Fence == Str(<<"tick", "tick", "tick">>)

\* lines 327-330: a part that starts with the fence and "json" loses its
\* first 8 characters, a part that ends with the fence its last 3
StripFence(part) ==
    LET opened == IF StartsWith(part, FenceJson) THEN SliceFrom(part, 8) ELSE part
    IN  IF EndsWith(opened, Fence) THEN SliceDropLast(opened, 3) ELSE opened

\* json.loads: white space around the value is skipped
IsSpace(c) == c.ch \in {" ", "\n", "\t", "\r"}

RECURSIVE SkipSpace(_)
SkipSpace(text) ==
    IF text # <<>> /\ IsSpace(Head(text)) THEN SkipSpace(Tail(text)) ELSE text

RECURSIVE SkipSpaceEnd(_)
SkipSpaceEnd(text) ==
    IF text # <<>> /\ IsSpace(text[Len(text)])
    THEN SkipSpaceEnd(SubSeq(text, 1, Len(text) - 1)) ELSE text

\* the elements written between "[" and "]", or "error"
RECURSIVE ArrayItems(_)
ArrayItems(inner) ==
    IF inner = <<>> THEN [ok |-> FALSE, items |-> <<>>]
    ELSE IF Head(inner).ch # "value" THEN [ok |-> FALSE, items |-> <<>>]
    ELSE IF Len(inner) = 1 THEN [ok |-> TRUE, items |-> <<Head(inner).v>>]
    ELSE IF inner[2].ch # "," THEN [ok |-> FALSE, items |-> <<>>]
    ELSE LET rest == ArrayItems(SubSeq(inner, 3, Len(inner)))
         IN  [ok |-> rest.ok, items |-> <<Head(inner).v>> \o rest.items]

\* json.loads(text): ok is FALSE for JSONDecodeError; is_list tells a
\* decoded array, with its elements, from any other decoded value
json_loads(text) ==
    LET t == SkipSpaceEnd(SkipSpace(text)) IN
    IF t = <<>> THEN [ok |-> FALSE, is_list |-> FALSE, items |-> <<>>]
    ELSE IF Len(t) = 1 /\ t[1].ch = "value"
    THEN [ok |-> TRUE, is_list |-> FALSE, items |-> <<>>]
    ELSE IF t[1].ch = "[" /\ t[Len(t)].ch = "]" /\ Len(t) >= 2
    THEN IF Len(t) = 2 THEN [ok |-> TRUE, is_list |-> TRUE, items |-> <<>>]
         ELSE LET a == ArrayItems(SubSeq(t, 2, Len(t) - 1))
              IN  [ok |-> a.ok, is_list |-> a.ok, items |-> a.items]
    ELSE [ok |-> FALSE, is_list |-> FALSE, items |-> <<>>]

\* ReviewComment(**comment_data): "mapping" is FALSE when the element is not
\* an object (TypeError), "valid" is FALSE when pydantic raises ValidationError
IsMapping(data) == data.json = "object"

RequiredKeys == {"Comment", "StartLine", "EndLine", "Type"}

Validates(data) ==
    /\ RequiredKeys \subseteq data.has
    /\ data.wrong \cap data.has = {}

\* the fields of the validated ReviewComment
ReviewComment(data) ==
    [Comment |-> data.Comment,
     Path |-> IF "Path" \in data.has THEN data.Path ELSE "None",
     StartLine |-> data.StartLine, EndLine |-> data.EndLine, Type |-> data.Type]

\* the argument of mr.discussions.create for a comment, with the part the
\* comment came from and the outcome of the call
Discussion(part, comment, outcome) ==
    [part |-> part,
     body |-> comment.Comment,
     path_key |-> IF comment.Type = "new" THEN "new_path" ELSE "old_path",
     path |-> comment.Path,
     line_key |-> IF comment.Type = "new" THEN "new_line" ELSE "old_line",
     line |-> comment.EndLine,
     outcome |-> outcome]

ValidationErrorRecord(part) == [kind |-> "validation", part |-> part]

NotAListRecord(part) == [kind |-> "not_a_list", part |-> part]

PostErrorRecord(part, comment) ==
    [kind |-> "post", part |-> part, comment |-> comment.Comment, Path |-> comment.Path,
     StartLine |-> comment.StartLine, EndLine |-> comment.EndLine, Type |-> comment.Type]

\* the loop over the elements of part number part with the loop left at the
\* first GitlabCreateError
RECURSIVE PostComments_StopsAtRejection(_, _, _, _)
PostComments_StopsAtRejection(st, items, outcomes, part) ==
    IF items = <<>> \/ st.raised THEN st
    ELSE LET data == Head(items) IN
         IF ~IsMapping(data) THEN [st EXCEPT !.raised = TRUE]
         ELSE IF ~Validates(data)
         THEN PostComments_StopsAtRejection(
                  [st EXCEPT !.error_details = Append(@, ValidationErrorRecord(part))],
                  Tail(items), Tail(outcomes), part)
         ELSE LET comment == ReviewComment(data)
                  posted  == Append(st.discussions, Discussion(part, comment, Head(outcomes)))
              IN  IF Head(outcomes) = "GitlabCreateError"
                  THEN [st EXCEPT !.discussions = posted,
                                  !.error_details = Append(@, PostErrorRecord(part, comment))]
                  ELSE PostComments_StopsAtRejection([st EXCEPT !.discussions = posted],
                            Tail(items), Tail(outcomes), part)

\* the loop over the elements of part number part (lines 343-375); st is
\* [discussions, error_details, raised], outcomes[i] is what the remote
\* answers if a discussion is created for the i-th element
RECURSIVE PostComments(_, _, _, _)
PostComments(st, items, outcomes, part) ==
    IF items = <<>> \/ st.raised THEN st
    ELSE LET data == Head(items) IN
         IF ~IsMapping(data) THEN [st EXCEPT !.raised = TRUE]
         ELSE IF ~Validates(data)
         THEN PostComments([st EXCEPT !.error_details = Append(@, ValidationErrorRecord(part))],
                           Tail(items), Tail(outcomes), part)
         ELSE LET comment == ReviewComment(data)
                  posted  == Append(st.discussions, Discussion(part, comment, Head(outcomes)))
              IN  IF Head(outcomes) = "GitlabCreateError"
                  THEN PostComments([st EXCEPT !.discussions = posted,
                                               !.error_details = Append(@, PostErrorRecord(part, comment))],
                                    Tail(items), Tail(outcomes), part)
                  ELSE PostComments([st EXCEPT !.discussions = posted],
                                    Tail(items), Tail(outcomes), part)

Outcomes == {"created", "GitlabCreateError"}

\* the decoded value of the part the loop is about to process
NextPart == json_loads(StripFence(review_comments[part_index + 1]))

InitPost ==
    /\ review_comments \in ResponseLists
    /\ part_index = 0
    /\ error_details = <<>>
    /\ discussions = <<>>
    /\ result = "none"
    /\ post_pc = "loop"
    /\ summary = <<>>
    /\ NoBot
    /\ NoParser
    /\ NoReviewer
    /\ diffs = <<>>
    /\ max_tokens_per_chunk = 0
    /\ base_tokens = 0
    /\ chunks = <<>>
    /\ plan_pc = "none"

\* an iteration whose part is not JSON goes on to the next part
PartInvalidJson_Continues ==
    /\ post_pc = "loop"
    /\ part_index < Len(review_comments)
    /\ ~NextPart.ok
    /\ part_index' = part_index + 1
    /\ error_details' = Append(error_details, NotAListRecord(part_index + 1))
    /\ UNCHANGED <<review_comments, discussions, result, post_pc, summary>>
    /\ UNCHANGED <<planVars, reviewerVars, parserVars, botVars>>

\* an iteration whose part is not JSON: the call returns (lines 331-335)
PartInvalidJson ==
    /\ post_pc = "loop"
    /\ part_index < Len(review_comments)
    /\ ~NextPart.ok
    /\ part_index' = part_index + 1
    /\ result' = "Invalid JSON format in ChatGPT response."
    /\ summary' = <<>>
    /\ post_pc' = "done"
    /\ UNCHANGED <<review_comments, error_details, discussions>>
    /\ UNCHANGED <<planVars, reviewerVars, parserVars, botVars>>

\* an iteration whose part decodes to a value that is not a list (lines 338-341)
PartNotAList ==
    /\ post_pc = "loop"
    /\ part_index < Len(review_comments)
    /\ NextPart.ok /\ ~NextPart.is_list
    /\ part_index' = part_index + 1
    /\ error_details' = Append(error_details, NotAListRecord(part_index + 1))
    /\ UNCHANGED <<review_comments, discussions, result, post_pc, summary>>
    /\ UNCHANGED <<planVars, reviewerVars, parserVars, botVars>>

\* an iteration whose part decodes to a list (lines 343-375): every element
\* is validated and posted in turn, unless an element that is not an object
\* ends the call with TypeError
PartPosted ==
    /\ post_pc = "loop"
    /\ part_index < Len(review_comments)
    /\ NextPart.ok /\ NextPart.is_list
    /\ \E outcomes \in [1..Len(NextPart.items) -> Outcomes] :
          LET st == PostComments([discussions |-> discussions,
                                  error_details |-> error_details,
                                  raised |-> FALSE],
                                 NextPart.items, outcomes, part_index + 1)
          IN  /\ discussions' = st.discussions
              /\ error_details' = st.error_details
              /\ post_pc' = IF st.raised THEN "TypeError" ELSE "loop"
    /\ part_index' = part_index + 1
    /\ UNCHANGED <<review_comments, result, summary>>
    /\ UNCHANGED <<planVars, reviewerVars, parserVars, botVars>>

\* after the last part: the summary of the errors, or None (lines 377-380)
PostReturns ==
    /\ post_pc = "loop"
    /\ part_index = Len(review_comments)
    /\ result' = IF error_details # <<>> THEN "Failed to post some comments due to errors"
                 ELSE "None"
    /\ summary' = error_details
    /\ post_pc' = "done"
    /\ UNCHANGED <<review_comments, part_index, error_details, discussions>>
    /\ UNCHANGED <<planVars, reviewerVars, parserVars, botVars>>

NextPost ==
    \/ PartInvalidJson
    \/ PartNotAList
    \/ PartPosted
    \/ PostReturns

SpecPost == InitPost /\ [][NextPost]_vars

----------------------------------------------------------------------------
(* post_review_comments on responses wrapped in fenced-code markers *)

Newline == Str(<<"\n">>)

\* what a response has before and after the JSON text: the opening fence
\* with or without the "json" tag and with or without newlines around it,
\* and the closing fence
FenceOpens ==
    {FenceJson \o Newline, FenceJson, Fence \o Newline, Newline \o FenceJson \o Newline}

FenceCloses == {Newline \o Fence, Fence, Newline \o Fence \o Newline}

\* the texts that get wrapped
FencedPayloads ==
    {ArrayText(<<CommentNew>>), ArrayText(<<CommentOld, CommentNoEndLine>>),
     ObjectText, ProseText}

FencedTexts ==
    {open \o text \o close :
        open \in FenceOpens, text \in FencedPayloads, close \in FenceCloses}

InitFence ==
    /\ review_comments \in SeqsUpTo(FencedTexts, MaxFencedParts)
    /\ part_index = 0
    /\ error_details = <<>>
    /\ discussions = <<>>
    /\ result = "none"
    /\ post_pc = "loop"
    /\ summary = <<>>
    /\ NoBot
    /\ NoParser
    /\ NoReviewer
    /\ diffs = <<>>
    /\ max_tokens_per_chunk = 0
    /\ base_tokens = 0
    /\ chunks = <<>>
    /\ plan_pc = "none"

SpecFence == InitFence /\ [][NextPost]_vars

----------------------------------------------------------------------------
(* review_merge_request_async *)

MrIds == {7, 8}

\* the texts send_to_chatgpt returns for a chunk
BotPartTexts == {ArrayText(<<CommentNew>>), ArrayText(<<Number>>), ObjectText, ProseText}

\* the three strings the coroutine returns (lines 86, 87 and 91)
Completed(id, stats) ==
    [kind |-> "Review completed and comments posted", mr_id |-> id, token_summary |-> stats]

CompletedWithErrors(id, message, details) ==
    [kind |-> "Review completed with errors", mr_id |-> id,
     error_message |-> message, details |-> details]

Failed(id, e) ==
    [kind |-> "Failed to process Merge Request", mr_id |-> id, error |-> e]

\* the coroutine is called on a merge request: a new reviewer is constructed
InitBot ==
    /\ mr_id \in MrIds
    /\ bot_pc = "start"
    /\ reply = [kind |-> "none"]
    /\ NewReviewer
    /\ NoPoster
    /\ NoParser

\* GitLabClient, ChatGPTReviewer or get_diffs_from_mr raises (lines 64-67)
BotSetupFails ==
    /\ bot_pc = "start"
    /\ rv_pc = "idle"
    /\ reply' = Failed(mr_id, "setup")
    /\ bot_pc' = "done"
    /\ UNCHANGED <<mr_id, planVars, reviewerVars, parserVars, posterVars>>

\* get_diffs_from_mr returns and reviewer.get_review is called (lines 67-70)
BotGetReview ==
    /\ bot_pc = "start"
    /\ calls = 0
    /\ CallGetReview

\* get_review raised RuntimeError after its last attempt (line 70)
BotReviewRaised ==
    /\ bot_pc = "start"
    /\ rv_pc = "raised"
    /\ reply' = Failed(mr_id, "Max retries exceeded")
    /\ bot_pc' = "done"
    /\ UNCHANGED <<mr_id, planVars, reviewerVars, parserVars, posterVars>>

\* get_review returned one response per chunk and post_review_comments is
\* called on them (lines 70-76)
BotPostReviewComments ==
    /\ bot_pc = "start"
    /\ rv_pc = "returned"
    /\ review_comments' \in [1..Len(reviews) -> BotPartTexts]
    /\ part_index' = 0
    /\ error_details' = <<>>
    /\ discussions' = <<>>
    /\ post_pc' = "loop"
    /\ bot_pc' = "posting"
    /\ UNCHANGED <<result, summary, mr_id, reply, planVars, reviewerVars, parserVars>>

\* post_review_comments raised TypeError (line 76)
BotPostRaised ==
    /\ bot_pc = "posting"
    /\ post_pc = "TypeError"
    /\ reply' = Failed(mr_id, "TypeError")
    /\ bot_pc' = "done"
    /\ UNCHANGED <<mr_id, planVars, reviewerVars, parserVars, posterVars>>

\* post_review_comments returned error_message (lines 76-87)
BotReturns ==
    /\ bot_pc = "posting"
    /\ post_pc = "done"
    /\ reply' = IF result # "None"
                THEN CompletedWithErrors(mr_id, result, summary)
                ELSE Completed(mr_id, token_stats)
    /\ bot_pc' = "done"
    /\ UNCHANGED <<mr_id, planVars, reviewerVars, parserVars, posterVars>>

NextBot ==
    \/ BotSetupFails
    \/ BotGetReview
    \/ AttemptSucceeds
    \/ AttemptFails
    \/ BotReviewRaised
    \/ BotPostReviewComments
    \/ PartInvalidJson
    \/ PartNotAList
    \/ PartPosted
    \/ PostReturns
    \/ BotReturns
    \/ BotPostRaised

SpecBot == InitBot /\ [][NextBot]_vars

----------------------------------------------------------------------------
(* Properties of split_into_chunks *)

ChunkCost(chunk) == base_tokens + SumTokens(chunk)

\* C1: the chunks returned by split_into_chunks, concatenated in order, are
\* exactly the input sequence of FileDiffs: nothing dropped, duplicated,
\* split or reordered.
C1_ConcatenationIsInput ==
    plan_pc = "done" => Flatten(chunks) = diffs

\* a call that closed a chunk holding several FileDiffs and opened another
C1_Witness ==
    /\ plan_pc = "done"
    /\ Len(chunks) >= 2
    /\ \E i \in 1..Len(chunks) : Len(chunks[i]) >= 2
    /\ Flatten(chunks) = diffs

\* C2: every chunk returned by split_into_chunks holds at least one
\* FileDiff, also when the first FileDiff alone exceeds the ceiling.
C2_NoEmptyChunk ==
    plan_pc = "done" => \A i \in 1..Len(chunks) : chunks[i] # <<>>

\* C3: a chunk holding two or more FileDiffs costs (base messages plus its
\* summaries) at most the ceiling; only chunks of exactly one FileDiff may
\* exceed it; costs 100 and 150 with ceiling 200 and base 20 give
\* [[file1],[file2]].
C3_OnlySingletonsExceedCeiling ==
    /\ plan_pc = "done" =>
          \A i \in 1..Len(chunks) :
              ChunkCost(chunks[i]) > max_tokens_per_chunk => Len(chunks[i]) = 1
    /\ split_into_chunks(<<Diff(1, 100), Diff(2, 150)>>, 200, 20)
          = << <<Diff(1, 100)>>, <<Diff(2, 150)>> >>

\* C3 restricted to chunks of two or more FileDiffs
MultiFileChunksWithinCeiling ==
    plan_pc = "done" =>
        \A i \in 1..Len(chunks) :
            Len(chunks[i]) >= 2 => ChunkCost(chunks[i]) <= max_tokens_per_chunk

----------------------------------------------------------------------------
(* Properties of get_review and of its retry wrapper *)

\* C4: after a get_review call that returned, total_tokens is at least
\* diff_tokens + static_tokens, and static_tokens is the prompt's token
\* count set at construction.
C4_TotalCoversDiffAndStatic ==
    rv_pc = "returned" =>
        /\ token_stats.total_tokens >= token_stats.diff_tokens + token_stats.static_tokens
        /\ token_stats.static_tokens = prompt_tokens

\* C4 restricted to static_tokens
StaticTokensConstant ==
    token_stats.static_tokens = prompt_tokens

\* once the wrapper has returned or raised, get_review runs again only in a new call
NoAttemptAfterEnd ==
    (rv_pc = "returned" \/ rv_pc = "raised") => (attempt' = attempt \/ calls' = calls + 1)

\* C5: the wrapper invokes get_review at most max_retries times; a
\* successful attempt ends the call with that attempt's responses and no
\* further attempt; when all max_retries attempts failed the call ends with
\* the RuntimeError and never with a value.
C5_BoundedRetryThenRaise ==
    /\ [](attempt <= max_retries)
    /\ [](rv_pc = "running" => attempt < max_retries)
    /\ [](rv_pc = "returned" => attempt >= 1 /\ Len(reviews) = Len(chunks))
    /\ [](rv_pc = "raised" => attempt = max_retries /\ reviews = <<>>)
    /\ [][NoAttemptAfterEnd]_vars

\* a call whose five attempts all failed and that ended with the RuntimeError
C5_Witness ==
    /\ rv_pc = "raised"
    /\ attempt = max_retries
    /\ Len(sleeps) >= max_retries - 1

\* the tokens of the summaries of the planned chunks, each counted once
PlannedDiffTokens == SumTokens(Flatten(chunks))

\* the tokens of the message sets of the planned chunks, each counted once
PlannedTotalTokens == Len(chunks) * base_tokens + SumTokens(Flatten(chunks))

\* C16: over a get_review call that returned, diff_tokens grew by the
\* summary tokens of the planned chunks and total_tokens by the tokens of
\* their message sets, each chunk counted once, whatever attempts of the
\* call failed before.
C16_ChunksCountedOnce ==
    rv_pc = "returned" =>
        /\ token_stats.diff_tokens = stats_at_call.diff_tokens + PlannedDiffTokens
        /\ token_stats.total_tokens = stats_at_call.total_tokens + PlannedTotalTokens

\* C16 restricted to calls whose first attempt succeeded
ChunksCountedOnceWithoutRetry ==
    (rv_pc = "returned" /\ attempt = 1) =>
        /\ token_stats.diff_tokens = stats_at_call.diff_tokens + PlannedDiffTokens
        /\ token_stats.total_tokens = stats_at_call.total_tokens + PlannedTotalTokens

\* the sleeps between k + 1 attempts: initial_delay, doubled after each failure
RECURSIVE Backoff(_)
Backoff(k) ==
    IF k = 0 THEN <<>>
    ELSE IF k = 1 THEN <<initial_delay>>
    ELSE LET b == Backoff(k - 1) IN Append(b, b[k - 1] * backoff_factor)

\* C17: whatever the kinds of the failures, the wrapper sleeps once between
\* two attempts, for 2, 4, 8, 16 seconds, and not after the last failed
\* attempt.
C17_SameBackoffForAllFailures ==
    /\ rv_pc = "running" => sleeps = Backoff(attempt)
    /\ rv_pc = "returned" => sleeps = Backoff(attempt - 1)
    /\ rv_pc = "raised" => sleeps = Backoff(max_retries - 1)

\* C17 without the last clause: the delays double from initial_delay, one
\* per failed attempt, up to a sleep after the last failure
BackoffDoubles ==
    /\ rv_pc = "running" => sleeps = Backoff(attempt)
    /\ rv_pc = "returned" => sleeps = Backoff(attempt - 1)
    /\ rv_pc = "raised" => sleeps \in {Backoff(max_retries - 1), Backoff(max_retries)}

----------------------------------------------------------------------------
(* Properties of parse_diff_block *)

IsContent(line) == line.kind = "text" /\ line.prefix \in {" ", "-", "+"}

\* every content line of the block comes after a hunk header
ContentFollowsHeader(lines) ==
    \A i \in 1..Len(lines) :
        IsContent(lines[i]) => \E h \in 1..(i - 1) : lines[h].kind = "header"

\* the numbering the diff format defines: every hunk header sets both
\* counters to its start values, a content line carries and advances the
\* counters it consumes, any other line is dropped
RECURSIVE Annotate(_, _, _)
Annotate(lines, old, new) ==
    IF lines = <<>> THEN <<>>
    ELSE LET l == Head(lines) IN
         IF l.kind = "header" THEN Annotate(Tail(lines), l.old_start, l.new_start)
         ELSE IF l.prefix = " "
         THEN <<ParsedLine(l.content, old, new, "none")>> \o Annotate(Tail(lines), old + 1, new + 1)
         ELSE IF l.prefix = "-"
         THEN <<ParsedLine(l.content, old, None, "old")>> \o Annotate(Tail(lines), old + 1, new)
         ELSE IF l.prefix = "+"
         THEN <<ParsedLine(l.content, None, new, "new")>> \o Annotate(Tail(lines), old, new + 1)
         ELSE Annotate(Tail(lines), old, new)

ExampleBlock ==
    <<Header(1, TRUE, 1, TRUE), Text(" ", "line1"), Text("-", "old2"),
      Text("+", "new2"), Text("+", "new3")>>

ExampleParsed ==
    <<ParsedLine("line1", 1, 1, "none"), ParsedLine("old2", 2, None, "old"),
      ParsedLine("new2", None, 2, "new"), ParsedLine("new3", None, 3, "new")>>

\* C6: for a diff block whose content lines all follow a hunk header the
\* parser emits one ParsedLine per content line, in order, numbered from the
\* start values of the latest hunk header and advancing by one per line
\* that consumes a counter; headers are not emitted.
C6_LinesNumberedFromHeaders ==
    /\ (parse_pc # "call" /\ ContentFollowsHeader(diff_block)) =>
          /\ parse_pc = "done"
          /\ parsed_lines = Annotate(diff_block, None, None)
    /\ ~parse_diff_block(ExampleBlock).raised
    /\ parse_diff_block(ExampleBlock).parsed_lines = ExampleParsed

\* C6 restricted to blocks whose hunk headers all carry the old count
NumberedFromHeadersWithOldCount ==
    (/\ parse_pc # "call"
     /\ ContentFollowsHeader(diff_block)
     /\ \A i \in 1..Len(diff_block) :
            diff_block[i].kind = "header" => diff_block[i].old_count) =>
        /\ parse_pc = "done"
        /\ parsed_lines = Annotate(diff_block, None, None)

\* C7: parse_diff_block returns a list for every input text and never raises.
C7_ParserNeverRaises ==
    parse_pc # "call" => parse_pc = "done"

HasHeader(lines) == \E h \in 1..Len(lines) : lines[h].kind = "header"

\* the position of the last hunk header of a block that has one
LastHeader(lines) ==
    CHOOSE h \in 1..Len(lines) :
        /\ lines[h].kind = "header"
        /\ \A j \in (h + 1)..Len(lines) : lines[j].kind # "header"

\* the lines of the last hunk, numbered from the start values of its header
LastHunkAnnotated(lines) ==
    LET h == LastHeader(lines) IN
    Annotate(SubSeq(lines, h + 1, Len(lines)), lines[h].old_start, lines[h].new_start)

Suffix(s, n) == SubSeq(s, Len(s) - n + 1, Len(s))

\* C18: a hunk header is recognised with either count present or omitted:
\* the parser returns, and the lines after the last header of the block are
\* the last lines emitted, numbered from that header's start values.
C18_HeaderRecognisedInEveryForm ==
    (parse_pc # "call" /\ HasHeader(diff_block) /\ ContentFollowsHeader(diff_block)) =>
        /\ parse_pc = "done"
        /\ Len(parsed_lines) >= Len(LastHunkAnnotated(diff_block))
        /\ Suffix(parsed_lines, Len(LastHunkAnnotated(diff_block)))
              = LastHunkAnnotated(diff_block)

\* C18 for the headers the pattern of the code matches: old count present,
\* new count present or omitted
HeaderWithOldCountRecognised ==
    (/\ parse_pc # "call"
     /\ HasHeader(diff_block)
     /\ ContentFollowsHeader(diff_block)
     /\ \A i \in 1..Len(diff_block) :
            diff_block[i].kind = "header" => diff_block[i].old_count) =>
        /\ parse_pc = "done"
        /\ Len(parsed_lines) >= Len(LastHunkAnnotated(diff_block))
        /\ Suffix(parsed_lines, Len(LastHunkAnnotated(diff_block)))
              = LastHunkAnnotated(diff_block)

----------------------------------------------------------------------------
(* Properties of post_review_comments *)

Decoded(i) == json_loads(StripFence(review_comments[i]))

Ended == post_pc = "done" \/ post_pc = "TypeError"

\* an element that passes comment-shape validation
IsValidComment(data) == IsMapping(data) /\ Validates(data)

\* the comments of a part that pass validation, in array order, each with
\* the number of the part
RECURSIVE ValidComments(_, _)
ValidComments(items, part) ==
    IF items = <<>> THEN <<>>
    ELSE (IF IsValidComment(Head(items))
          THEN <<[part |-> part, comment |-> ReviewComment(Head(items))]>> ELSE <<>>)
         \o ValidComments(Tail(items), part)

\* the elements of a part that were validated: those before the first
\* element that is not an object
RECURSIVE Reached(_)
Reached(items) ==
    IF items = <<>> \/ ~IsMapping(Head(items)) THEN <<>>
    ELSE <<Head(items)>> \o Reached(Tail(items))

\* the valid comments of all array parts among the first n parts
RECURSIVE ValidCommentsOfParts(_)
ValidCommentsOfParts(n) ==
    IF n = 0 THEN <<>>
    ELSE ValidCommentsOfParts(n - 1)
         \o (IF Decoded(n).is_list THEN ValidComments(Decoded(n).items, n) ELSE <<>>)

\* the comments that passed validation in the first n parts of the call
RECURSIVE ValidatedCommentsOfParts(_)
ValidatedCommentsOfParts(n) ==
    IF n = 0 THEN <<>>
    ELSE ValidatedCommentsOfParts(n - 1)
         \o (IF Decoded(n).is_list THEN ValidComments(Reached(Decoded(n).items), n) ELSE <<>>)

\* the elements of all array parts that fail validation
RECURSIVE InvalidElements(_)
InvalidElements(n) ==
    IF n = 0 THEN 0
    ELSE InvalidElements(n - 1)
         + (IF Decoded(n).is_list
            THEN Len(SelectSeq(Decoded(n).items, LAMBDA d : ~IsValidComment(d))) ELSE 0)

IsValidationError(e) == e.kind = "validation"
IsPostError(e) == e.kind = "post"
IsRejected(d) == d.outcome = "GitlabCreateError"

\* the create-discussion calls made are those for the given comments, in order
CreatedFor(expected) ==
    /\ Len(discussions) = Len(expected)
    /\ \A j \in 1..Len(expected) :
          \E o \in Outcomes :
              discussions[j] = Discussion(expected[j].part, expected[j].comment, o)

AllPartsDecode == \A i \in 1..Len(review_comments) : Decoded(i).ok

\* C8: an array element that fails comment-shape validation (missing field,
\* wrong type, not an object) is recorded and skipped without ending the
\* call: all valid comments of all array parts get a create-discussion call.
C8_InvalidElementSkipped ==
    (Ended /\ AllPartsDecode) =>
        /\ post_pc = "done"
        /\ CreatedFor(ValidCommentsOfParts(Len(review_comments)))
        /\ Len(SelectSeq(error_details, IsValidationError))
             = InvalidElements(Len(review_comments))

\* C8 restricted to calls whose array elements are all JSON objects
InvalidObjectSkipped ==
    (/\ Ended
     /\ AllPartsDecode
     /\ \A i \in 1..Len(review_comments) :
            \A k \in 1..Len(Decoded(i).items) : IsMapping(Decoded(i).items[k])) =>
        /\ post_pc = "done"
        /\ CreatedFor(ValidCommentsOfParts(Len(review_comments)))
        /\ Len(SelectSeq(error_details, IsValidationError))
             = InvalidElements(Len(review_comments))

BadParts == {i \in 1..Len(review_comments) : ~Decoded(i).ok}

FirstBadPart == CHOOSE i \in BadParts : \A k \in BadParts : i <= k

\* C9: when the call comes to a part that is not JSON it returns the
\* invalid-JSON string there; no discussion is created for that part or a
\* later one, and those of the earlier parts have been created.
C9_InvalidJsonStopsPosting ==
    (post_pc = "done" /\ BadParts # {}) =>
        /\ result = "Invalid JSON format in ChatGPT response."
        /\ part_index = FirstBadPart
        /\ \A j \in 1..Len(discussions) : discussions[j].part < FirstBadPart
        /\ CreatedFor(ValidCommentsOfParts(FirstBadPart - 1))

\* a call stopped at a first part that is not JSON, with valid comments
\* waiting in the second part
C9_Witness ==
    /\ post_pc = "done"
    /\ result = "Invalid JSON format in ChatGPT response."
    /\ Len(review_comments) = 2
    /\ part_index = 1
    /\ Decoded(2).is_list
    /\ ValidComments(Decoded(2).items, 2) # <<>>
    /\ discussions = <<>>

\* the records of rejected create-discussion calls, given the comments the
\* calls were made for
RECURSIVE RejectionRecords(_, _)
RejectionRecords(ds, expected) ==
    IF ds = <<>> \/ expected = <<>> THEN <<>>
    ELSE (IF IsRejected(Head(ds))
          THEN <<PostErrorRecord(Head(expected).part, Head(expected).comment)>> ELSE <<>>)
         \o RejectionRecords(Tail(ds), Tail(expected))

\* C10: every comment that passed validation gets exactly one
\* create-discussion call, in part order then array order, whether or not
\* earlier calls were rejected; each rejection is recorded with the
\* comment's text, path, lines and type.
C10_RejectionDoesNotStopPosting ==
    /\ CreatedFor(ValidatedCommentsOfParts(part_index))
    /\ SelectSeq(error_details, IsPostError)
         = RejectionRecords(discussions, ValidatedCommentsOfParts(part_index))
    /\ (post_pc = "done" /\ BadParts = {}) => part_index = Len(review_comments)

\* a finished call whose first create-discussion call was rejected and that
\* went on to post a comment of the next part
C10_Witness ==
    /\ post_pc = "done"
    /\ Len(discussions) >= 2
    /\ IsRejected(discussions[1])
    /\ discussions[1].part = 1
    /\ discussions[Len(discussions)].part = 2
    /\ ~IsRejected(discussions[Len(discussions)])
    /\ Len(SelectSeq(error_details, IsPostError)) = 1

\* every part is an array of valid comments and every create-discussion
\* call succeeded
AllPostedCleanly ==
    /\ \A i \in 1..Len(review_comments) :
          /\ Decoded(i).is_list
          /\ \A k \in 1..Len(Decoded(i).items) : IsValidComment(Decoded(i).items[k])
    /\ CreatedFor(ValidCommentsOfParts(Len(review_comments)))
    /\ \A j \in 1..Len(discussions) : ~IsRejected(discussions[j])

\* C11: the call returns None exactly when every comment of every part was
\* validated and posted without a failure; any other return value carries
\* a record of every failure recorded during the call, also of those
\* recorded before a later part turned out not to be JSON.
C11_ReturnReportsEveryFailure ==
    post_pc = "done" =>
        /\ (result = "None") <=> AllPostedCleanly
        /\ result # "None" => summary = error_details

\* C11 restricted to calls all of whose parts are JSON
ReturnReportsEveryFailureWhenAllDecode ==
    (post_pc = "done" /\ AllPartsDecode) =>
        /\ (result = "None") <=> AllPostedCleanly
        /\ result # "None" => summary = error_details

\* the elements of part i a discussion may have been created for, given
\* the types that pass validation
PostableElements(i, types) ==
    {k \in 1..Len(Decoded(i).items) :
        /\ IsValidComment(Decoded(i).items[k])
        /\ Decoded(i).items[k].Type \in types}

\* C13: a comment whose Type is neither "old" nor "new" fails validation
\* and is never posted; every discussion is for a comment of Type "new",
\* placed by new_path/new_line, or of Type "old", placed by
\* old_path/old_line, at the comment's EndLine.
C13_OnlyOldAndNewArePosted ==
    \A j \in 1..Len(discussions) :
        LET d == discussions[j] IN
        \E k \in PostableElements(d.part, {"old", "new"}) :
            LET c == ReviewComment(Decoded(d.part).items[k]) IN
            /\ d.body = c.Comment
            /\ d.path = c.Path
            /\ d.line = c.EndLine
            /\ d.path_key = (IF c.Type = "new" THEN "new_path" ELSE "old_path")
            /\ d.line_key = (IF c.Type = "new" THEN "new_line" ELSE "old_line")

\* C13 without the restriction of Type: every discussion is for a valid
\* comment and is placed on the new side exactly for Type "new"
PostedAtEndLineBySide ==
    \A j \in 1..Len(discussions) :
        LET d == discussions[j] IN
        \E k \in PostableElements(d.part, {"old", "new", "suggestion"}) :
            LET c == ReviewComment(Decoded(d.part).items[k]) IN
            /\ d.body = c.Comment
            /\ d.path = c.Path
            /\ d.line = c.EndLine
            /\ d.path_key = (IF c.Type = "new" THEN "new_path" ELSE "old_path")
            /\ d.line_key = (IF c.Type = "new" THEN "new_line" ELSE "old_line")

\* the parts processed so far that decoded to a value that is not an array
NonArrayParts == {i \in 1..part_index : Decoded(i).ok /\ ~Decoded(i).is_list}

\* C15: a part that decodes to JSON that is not an array gets one error
\* record and no discussion; all remaining parts are processed and their
\* valid comments posted; the call returns the error summary, not None.
C15_NonArrayPartSkipped ==
    (Ended /\ NonArrayParts # {}) =>
        /\ post_pc = "done"
        /\ \A i \in NonArrayParts :
              /\ Len(SelectSeq(error_details, LAMBDA e : e = NotAListRecord(i))) = 1
              /\ \A j \in 1..Len(discussions) : discussions[j].part # i
        /\ CreatedFor(ValidCommentsOfParts(Len(review_comments)))
        /\ result = "Failed to post some comments due to errors"
        /\ summary = error_details

\* C15 restricted to calls whose parts are all JSON and whose array elements
\* are all objects
NonArrayPartSkippedWhenNothingAborts ==
    (/\ Ended
     /\ NonArrayParts # {}
     /\ AllPartsDecode
     /\ \A i \in 1..Len(review_comments) :
            \A k \in 1..Len(Decoded(i).items) : IsMapping(Decoded(i).items[k])) =>
        /\ post_pc = "done"
        /\ \A i \in NonArrayParts :
              /\ Len(SelectSeq(error_details, LAMBDA e : e = NotAListRecord(i))) = 1
              /\ \A j \in 1..Len(discussions) : discussions[j].part # i
        /\ CreatedFor(ValidCommentsOfParts(Len(review_comments)))
        /\ result = "Failed to post some comments due to errors"
        /\ summary = error_details

----------------------------------------------------------------------------
(* Properties of post_review_comments on fenced responses *)

\* the text inside the fenced-code markers: white space around the block,
\* the opening fence with its optional "json" tag and the closing fence
\* removed
Unfence(text) ==
    LET t      == SkipSpaceEnd(SkipSpace(text))
        opened == IF StartsWith(t, FenceJson) THEN SliceFrom(t, Len(FenceJson))
                  ELSE IF StartsWith(t, Fence) THEN SliceFrom(t, Len(Fence))
                  ELSE t
    IN  IF EndsWith(opened, Fence) THEN SliceDropLast(opened, Len(Fence)) ELSE opened

\* C14: a part wrapped in fenced-code markers, with or without the "json"
\* tag and with or without newlines around the markers, is decoded to the
\* value of the text inside the markers, so it is handled as that text.
C14_FencedPartDecodesAsUnwrapped ==
    \A i \in 1..part_index : Decoded(i) = json_loads(Unfence(review_comments[i]))

\* the fenced form the code strips completely: the fence, "json" and a
\* newline before the text, the fence at the very end
IsTaggedFence(text) ==
    /\ StartsWith(text, FenceJson \o Newline)
    /\ EndsWith(text, Fence)

\* C14 restricted to parts in that form
TaggedFenceDecodesAsUnwrapped ==
    \A i \in 1..part_index :
        IsTaggedFence(review_comments[i]) =>
            Decoded(i) = json_loads(Unfence(review_comments[i]))

----------------------------------------------------------------------------
(* Properties of review_merge_request_async *)

\* some part of the response was not JSON
MalformedResponse == result = "Invalid JSON format in ChatGPT response."

\* the run met an error that ends the review: the set-up or the fetch of the
\* diffs failed, get_review used up its attempts, post_review_comments
\* raised, or a part of the response was not JSON
FatalError ==
    \/ rv_pc = "idle"
    \/ rv_pc = "raised"
    \/ post_pc = "TypeError"
    \/ MalformedResponse

\* C12: the coroutine ends with one of its three messages: the failure
\* message, naming the merge request, exactly when a fatal error occurred
\* (attempts used up in get_review, malformed JSON in the response);
\* otherwise the confirmation with the token statistics when nothing
\* failed, and "completed with errors" with the itemised failures when
\* something did.
C12_ReplyTellsOutcome ==
    bot_pc = "done" =>
        IF FatalError
        THEN reply.kind = "Failed to process Merge Request" /\ reply.mr_id = mr_id
        ELSE IF error_details = <<>>
        THEN reply = Completed(mr_id, token_stats)
        ELSE /\ reply.kind = "Review completed with errors"
             /\ reply.mr_id = mr_id
             /\ reply.details = error_details

\* C12 for the runs in which every part of the response is JSON
ReplyTellsOutcomeWhenAllDecode ==
    (bot_pc = "done" /\ ~MalformedResponse) =>
        IF FatalError
        THEN reply.kind = "Failed to process Merge Request" /\ reply.mr_id = mr_id
        ELSE IF error_details = <<>>
        THEN reply = Completed(mr_id, token_stats)
        ELSE /\ reply.kind = "Review completed with errors"
             /\ reply.mr_id = mr_id
             /\ reply.details = error_details

\* the coroutine is at one of its positions: no exception leaves it
BotPositions == bot_pc \in {"start", "posting", "done"}

====
